---- MODULE Spec2Model ----
(***************************************************************************)
(* SMPP load generator: session driver (worker.rs), metrics aggregator     *)
(* (metrics.rs), bind status registry (bind_tracker.rs), load              *)
(* configuration (config.rs) and supervisor (main.rs).                     *)
(*                                                                         *)
(* One state machine.  The per-session variables are functions over the    *)
(* bind indices 0 .. config.binds - 1.  The SMPP server and the codec are  *)
(* the environment: they complete submit_sm futures, emit events on the    *)
(* event stream and end the stream.                                        *)
(***************************************************************************)
EXTENDS Integers, Sequences, FiniteSets, Bags, TLC

(***************************************************************************)
(* Bounds of the model.                                                    *)
(***************************************************************************)
\* ticks fired per session under Spec and SpecLoops
MaxTicks == 2
\* events the server puts on one session's event stream
MaxEvents == 1
\* submissions completed while the unthrottled loop runs
MaxCompleted == 3
\* ticks fired under SpecThrottle
MaxThrottleTicks == 30
\* ticks fired under SpecGrants (two seconds of ticks)
MaxGrantTicks == 200
\* ticks fired under SpecWindow (five grants at 2 per second)
MaxWindowTicks == 250
\* deliver_sm PDUs the server sends under SpecDlr
MaxDlrEvents == 2
\* tokens of a short_message under SpecParser
MaxTokens == 3
\* ticks fired per session under SpecPeers
MaxPeerTicks == 1
MaxWrites == 3
MaxOverflowTicks == 225

(***************************************************************************)
(* Program constants.                                                      *)
(***************************************************************************)
TICK_MS == 10
ticks_per_sec == 1000 \div TICK_MS
default_max_tps == 100
default_inflight == 64

(***************************************************************************)
(* State.                                                                  *)
(***************************************************************************)
VARIABLES
    config,        \* config.load: binds, max_tps_per_bind, inflight_per_bind
    shutdown,      \* the CancellationToken: TRUE once cancelled
    supPc,         \* position of main
    statuses,      \* BindTracker.statuses: idx -> [state, last_message_id]
    statePath,     \* history: the states written to each registry slot, in order
    metrics,       \* Metrics: totals and per_bind counters
    pc,            \* position of each spawn_bind / run_bind task
    result,        \* the error run_bind returns ("" while none)
    client,        \* the codec Client of each session: none, open, closed
    calls,         \* history: codec calls made by each session
    max_tps,       \* drive_*_loop argument
    max_inflight,  \* drive_*_loop argument
    allowance,     \* drive_throttled_loop local
    remainder,     \* drive_throttled_loop local
    ticks,         \* history: ticks fired by each session's ticker
    issued,        \* history: submit_once calls of each session
    granted,       \* history: grants added to allowance by each session's ticks
    inflight,      \* FuturesUnordered: [pending: on the wire, ready: completed bag]
    sent_index,    \* the DashMap's key set, per session
    events,        \* the event stream of each session (queued events)
    streamEnded,   \* the event stream yields None once drained
    dpc,           \* position of each event dispatcher task
    cur,           \* the deliver_sm the dispatcher is processing
    acks,          \* history: sequence numbers answered with deliver_sm_resp
    classified,    \* history: deliver_sm PDUs a DLR state was recorded for
    emitted,       \* history: events the server emitted, per session
    respondedIds,  \* history: message ids returned in a successful submit_sm_resp
    dlrFor,        \* history: message ids the server has sent a deliver_sm for
    win,           \* history: one observation window of consecutive ticks
    rec,           \* the record_success / record_error call each session is in
    snapshot,      \* the Vec a reader got from BindTracker::snapshot
    last_write     \* history: the last direct call of a registry writer

vars == << config, shutdown, supPc, statuses, statePath, metrics, pc, result,
           client, calls, max_tps, max_inflight, allowance, remainder, ticks,
           issued, granted, inflight, sent_index, events, streamEnded, dpc,
           cur, acks, classified, emitted, respondedIds, dlrFor, win, rec,
           snapshot, last_write >>

sessionVars == << pc, result, client, calls >>
loopVars == << max_tps, max_inflight, allowance, remainder, ticks, issued,
               granted, inflight >>
dispatchVars == << dpc, cur, acks, classified >>
serverVars == << events, streamEnded, emitted, respondedIds, dlrFor >>
registryVars == << statuses, statePath >>

Idx == 0 .. (config.binds - 1)

Max(a, b) == IF a >= b THEN a ELSE b

(***************************************************************************)
(* config.rs: LoadConfig accessors.                                        *)
(***************************************************************************)
\* the configured value as written, zero included
max_tps_per_bind_raw(load) == load.max_tps_per_bind

max_tps_per_bind(load) ==
    IF load.max_tps_per_bind = 0 THEN default_max_tps ELSE load.max_tps_per_bind

inflight_per_bind(load) ==
    IF load.inflight_per_bind = 0 THEN default_inflight ELSE load.inflight_per_bind

(***************************************************************************)
(* bind_tracker.rs: BindState, BindStatus, BindTracker.                    *)
(***************************************************************************)
Pending == [tag |-> "Pending", msg |-> ""]
Connecting == [tag |-> "Connecting", msg |-> ""]
Bound == [tag |-> "Bound", msg |-> ""]
Error(m) == [tag |-> "Error", msg |-> m]

NoMessageId == [some |-> FALSE, id |-> ""]
SomeMessageId(m) == [some |-> TRUE, id |-> m]

BindStatusNew(state) == [state |-> state, last_message_id |-> NoMessageId]

BindTrackerNew(size) == [k \in 0 .. (size - 1) |-> BindStatusNew(Pending)]

\* BindStatus::new on a slot that exists: the last message id is lost
set_state_reset(S, idx, state) ==
    IF idx \in DOMAIN S THEN [S EXCEPT ![idx] = BindStatusNew(state)] ELSE S

set_state(S, idx, state) ==
    IF idx \in DOMAIN S THEN [S EXCEPT ![idx].state = state] ELSE S

set_last_message_id(S, idx, message_id) ==
    IF idx \in DOMAIN S THEN [S EXCEPT ![idx].last_message_id = message_id] ELSE S

\* the history of a slot: a write to an index out of range is dropped
observe(P, idx, state) ==
    IF idx \in DOMAIN P THEN [P EXCEPT ![idx] = Append(@, state.tag)] ELSE P

(***************************************************************************)
(* metrics.rs: Metrics and BindMetrics.                                    *)
(***************************************************************************)
MessageStates == {"Enroute", "Delivered", "Expired", "Deleted", "Undeliverable",
                  "Accepted", "Unknown", "Rejected", "Scheduled", "Skipped", "Other"}

BindMetricsDefault ==
    [attempts |-> 0, success |-> 0, error |-> 0, latency_micros |-> 0,
     dlr_received |-> 0, dlr_latency_micros |-> 0, dlr_delivered |-> 0,
     dlr_failed |-> 0, dlr_unknown |-> 0, dlr_enroute |-> 0, dlr_expired |-> 0,
     dlr_deleted |-> 0, dlr_accepted |-> 0]

MetricsNew(bind_count) ==
    [total_attempts |-> 0, total_success |-> 0, total_error |-> 0,
     total_latency_micros |-> 0,
     per_bind |-> [k \in 0 .. (bind_count - 1) |-> BindMetricsDefault]]

\* AtomicU64, scaled to 16 bits: u64::MAX and the modulus of its arithmetic
U64_MAX == 65535
U64_MODULUS == U64_MAX + 1

\* AtomicU64::fetch_add: wrapping addition
fetch_add(x, v) == (x + v) % U64_MODULUS

\* u64::try_from(micros).unwrap_or(u64::MAX), micros a u128
capped(micros) == IF micros > U64_MAX THEN U64_MAX ELSE micros

bind_add_latency(b, latency) ==
    [b EXCEPT !.latency_micros = fetch_add(@, capped(latency))]

bind_record_success(b, latency) ==
    bind_add_latency([b EXCEPT !.attempts = fetch_add(@, 1),
                               !.success = fetch_add(@, 1)], latency)

\* BindMetrics::record_error that leaves attempts alone
bind_record_error_uncounted(b, latency) ==
    bind_add_latency([b EXCEPT !.error = fetch_add(@, 1)], latency)

bind_record_error(b, latency) ==
    bind_add_latency([b EXCEPT !.attempts = fetch_add(@, 1),
                               !.error = fetch_add(@, 1)], latency)

bind_record_dlr(b, delay) ==
    [b EXCEPT !.dlr_received = fetch_add(@, 1),
              !.dlr_latency_micros = fetch_add(@, capped(delay))]

bind_record_dlr_status(b, delivered, failed) ==
    IF delivered THEN [b EXCEPT !.dlr_delivered = fetch_add(@, 1)]
    ELSE IF failed THEN [b EXCEPT !.dlr_failed = fetch_add(@, 1)]
    ELSE [b EXCEPT !.dlr_unknown = fetch_add(@, 1)]

bind_record_dlr_state(b, state) ==
    CASE state = "Enroute" -> [b EXCEPT !.dlr_enroute = fetch_add(@, 1)]
      [] state = "Delivered" -> [b EXCEPT !.dlr_delivered = fetch_add(@, 1)]
      [] state = "Expired" -> [b EXCEPT !.dlr_expired = fetch_add(@, 1)]
      [] state = "Deleted" -> [b EXCEPT !.dlr_deleted = fetch_add(@, 1)]
      [] state = "Undeliverable" -> [b EXCEPT !.dlr_failed = fetch_add(@, 1)]
      [] state = "Accepted" -> [b EXCEPT !.dlr_accepted = fetch_add(@, 1)]
      [] state = "Unknown" -> [b EXCEPT !.dlr_unknown = fetch_add(@, 1)]
      [] state = "Rejected" -> [b EXCEPT !.dlr_failed = fetch_add(@, 1)]
      [] OTHER -> [b EXCEPT !.dlr_unknown = fetch_add(@, 1)]

add_latency(M, latency) ==
    [M EXCEPT !.total_latency_micros = fetch_add(@, capped(latency))]

record_success(M, bind_idx, latency) ==
    LET T == add_latency([M EXCEPT !.total_attempts = fetch_add(@, 1),
                                   !.total_success = fetch_add(@, 1)], latency)
    IN  IF bind_idx \in DOMAIN T.per_bind
        THEN [T EXCEPT !.per_bind[bind_idx] = bind_record_success(@, latency)]
        ELSE T

record_error(M, bind_idx, latency) ==
    LET T == add_latency([M EXCEPT !.total_attempts = fetch_add(@, 1),
                                   !.total_error = fetch_add(@, 1)], latency)
    IN  IF bind_idx \in DOMAIN T.per_bind
        THEN [T EXCEPT !.per_bind[bind_idx] = bind_record_error(@, latency)]
        ELSE T

\* record_success / record_error one fetch_add at a time: the metrics after
\* the step-th atomic operation of the call (3 on the totals, then 3 on the
\* bind's counters)
record_steps == 6

record_step_uncounted(M, bind_idx, op, step, latency) ==
    CASE step = 1 -> [M EXCEPT !.total_attempts = fetch_add(@, 1)]
      [] step = 2 -> IF op = "success"
                     THEN [M EXCEPT !.total_success = fetch_add(@, 1)]
                     ELSE [M EXCEPT !.total_error = fetch_add(@, 1)]
      [] step = 3 -> add_latency(M, latency)
      [] OTHER ->
           IF bind_idx \notin DOMAIN M.per_bind THEN M
           ELSE CASE step = 4 ->
                       IF op = "success"
                       THEN [M EXCEPT !.per_bind[bind_idx].attempts = fetch_add(@, 1)]
                       ELSE M
                  [] step = 5 ->
                       IF op = "success"
                       THEN [M EXCEPT !.per_bind[bind_idx].success = fetch_add(@, 1)]
                       ELSE [M EXCEPT !.per_bind[bind_idx].error = fetch_add(@, 1)]
                  [] OTHER ->
                       [M EXCEPT !.per_bind[bind_idx] = bind_add_latency(@, latency)]

record_step(M, bind_idx, op, step, latency) ==
    CASE step = 1 -> [M EXCEPT !.total_attempts = fetch_add(@, 1)]
      [] step = 2 -> IF op = "success"
                     THEN [M EXCEPT !.total_success = fetch_add(@, 1)]
                     ELSE [M EXCEPT !.total_error = fetch_add(@, 1)]
      [] step = 3 -> add_latency(M, latency)
      [] OTHER ->
           IF bind_idx \notin DOMAIN M.per_bind THEN M
           ELSE CASE step = 4 ->
                       [M EXCEPT !.per_bind[bind_idx].attempts = fetch_add(@, 1)]
                  [] step = 5 ->
                       IF op = "success"
                       THEN [M EXCEPT !.per_bind[bind_idx].success = fetch_add(@, 1)]
                       ELSE [M EXCEPT !.per_bind[bind_idx].error = fetch_add(@, 1)]
                  [] OTHER ->
                       [M EXCEPT !.per_bind[bind_idx] = bind_add_latency(@, latency)]

record_dlr(M, bind_idx, delay) ==
    IF bind_idx \in DOMAIN M.per_bind
    THEN [M EXCEPT !.per_bind[bind_idx] = bind_record_dlr(@, delay)]
    ELSE M

record_dlr_status(M, bind_idx, delivered, failed) ==
    IF bind_idx \in DOMAIN M.per_bind
    THEN [M EXCEPT !.per_bind[bind_idx] = bind_record_dlr_status(@, delivered, failed)]
    ELSE M

record_dlr_state(M, bind_idx, state) ==
    IF bind_idx \in DOMAIN M.per_bind
    THEN [M EXCEPT !.per_bind[bind_idx] = bind_record_dlr_state(@, state)]
    ELSE M

(***************************************************************************)
(* worker.rs: the textual DLR parser.  A short_message is the sequence of  *)
(* its whitespace-separated tokens; a token is the prefix it starts with   *)
(* ("id:", "stat:" or neither) and the rest after that prefix.             *)
(***************************************************************************)
None == [some |-> FALSE, val |-> ""]
Some(v) == [some |-> TRUE, val |-> v]

Tok(prefix, rest) == [prefix |-> prefix, rest |-> rest]

to_ascii_uppercase(s) ==
    CASE s = "delivrd" -> "DELIVRD"
      [] s = "Delivered" -> "DELIVERED"
      [] s = "undeliv" -> "UNDELIV"
      [] s = "expired" -> "EXPIRED"
      [] OTHER -> s

map_stat_to_message_state(stat) ==
    LET up == to_ascii_uppercase(stat)
    IN  CASE up \in {"DELIVRD", "DELIVERED"} -> "Delivered"
          [] up = "ENROUTE" -> "Enroute"
          [] up = "EXPIRED" -> "Expired"
          [] up = "DELETED" -> "Deleted"
          [] up \in {"UNDELIV", "UNDELIVERABLE"} -> "Undeliverable"
          [] up \in {"ACCEPTD", "ACCEPTED"} -> "Accepted"
          [] up \in {"REJECTD", "REJECTED"} -> "Rejected"
          [] up = "UNKNOWN" -> "Unknown"
          [] OTHER -> "Unknown"

\* the for loop of parse_textual_dlr: the (id, stat) it ends with
RECURSIVE parse_tokens(_, _, _)
parse_tokens(tokens, id, stat) ==
    IF tokens = << >> THEN [id |-> id, stat |-> stat]
    ELSE LET token == Head(tokens)
             id1 == IF token.prefix = "id:" /\ token.rest # ""
                    THEN Some(token.rest) ELSE id
             stat1 == IF token.prefix = "stat:" /\ token.rest # ""
                      THEN Some(token.rest) ELSE stat
         IN  IF id1.some /\ stat1.some
             THEN [id |-> id1, stat |-> stat1]
             ELSE parse_tokens(Tail(tokens), id1, stat1)

NoDlr == [some |-> FALSE, id |-> "", ms |-> "Unknown"]

parse_textual_dlr(text) ==
    LET r == parse_tokens(text, None, None)
    IN  IF ~r.id.some THEN NoDlr
        ELSE [some |-> TRUE, id |-> r.id.val,
              ms |-> map_stat_to_message_state(IF r.stat.some THEN r.stat.val ELSE "")]

(***************************************************************************)
(* The events of the codec's event stream.  A deliver_sm carries its TLVs  *)
(* in order and its short_message: valid UTF-8 (then its tokens) or not.   *)
(***************************************************************************)
TlvReceiptedMessageId(m) == [tag |-> "ReceiptedMessageId", value |-> m]
TlvMessageState(s) == [tag |-> "MessageState", value |-> s]

Text(tokens) == [utf8 |-> TRUE, tokens |-> tokens]
NotUtf8 == [utf8 |-> FALSE, tokens |-> << >>]

DeliverSm(tlvs, short_message) == [tlvs |-> tlvs, short_message |-> short_message]

DlrTlv(m, s) == DeliverSm(<< TlvReceiptedMessageId(m), TlvMessageState(s) >>, Text(<< >>))

DlrText(m, stat) ==
    DeliverSm(<< >>, Text(<< Tok("id:", m), Tok("", "sub:001"), Tok("stat:", stat),
                            Tok("", "err:000") >>))

DlrBoth(m, s, stat) ==
    DeliverSm(<< TlvReceiptedMessageId(m), TlvMessageState(s) >>,
              Text(<< Tok("id:", m), Tok("stat:", stat) >>))

\* the id a deliver_sm names: in a receipted_message_id TLV, or in its text
RECURSIVE TlvIds(_)
TlvIds(tlvs) ==
    IF tlvs = << >> THEN {}
    ELSE (IF Head(tlvs).tag = "ReceiptedMessageId" THEN {Head(tlvs).value} ELSE {})
         \cup TlvIds(Tail(tlvs))

NamedIds(pdu) ==
    TlvIds(pdu.tlvs)
    \cup (IF pdu.short_message.utf8 /\ parse_textual_dlr(pdu.short_message.tokens).some
          THEN {parse_textual_dlr(pdu.short_message.tokens).id} ELSE {})

(***************************************************************************)
(* worker.rs: what the event dispatcher does with one deliver_sm after its *)
(* deliver_sm_resp: a state [M: metrics, SI: the correlation map's keys].  *)
(***************************************************************************)
\* start.elapsed() of a correlation entry, in microseconds
DlrDelay == 7

remove_and_record_keep(st, idx, id) ==
    IF id \in st.SI
    THEN [M |-> record_dlr(st.M, idx, DlrDelay), SI |-> st.SI]
    ELSE st

remove_and_record(st, idx, id) ==
    IF id \in st.SI
    THEN [M |-> record_dlr(st.M, idx, DlrDelay), SI |-> st.SI \ {id}]
    ELSE st

RECURSIVE receipted_loop(_, _, _)
receipted_loop(tlvs, st, idx) ==
    IF tlvs = << >> THEN st
    ELSE receipted_loop(Tail(tlvs),
                        IF Head(tlvs).tag = "ReceiptedMessageId"
                        THEN remove_and_record(st, idx, Head(tlvs).value)
                        ELSE st,
                        idx)

is_delivered(ms) == ms = "Delivered"
is_failed(ms) == ms \in {"Undeliverable", "Rejected", "Expired", "Deleted"}

RECURSIVE message_state_loop(_, _, _)
message_state_loop(tlvs, st, idx) ==
    IF tlvs = << >> THEN st
    ELSE message_state_loop(
             Tail(tlvs),
             IF Head(tlvs).tag = "MessageState"
             THEN [st EXCEPT !.M = record_dlr_state(
                                       record_dlr_status(st.M, idx,
                                                         is_delivered(Head(tlvs).value),
                                                         is_failed(Head(tlvs).value)),
                                       idx, Head(tlvs).value)]
             ELSE st,
             idx)

textual_fallback(short_message, st, idx) ==
    IF ~short_message.utf8 THEN st
    ELSE LET dlr == parse_textual_dlr(short_message.tokens)
         IN  IF ~dlr.some THEN st
             ELSE LET st1 == remove_and_record(st, idx, dlr.id)
                  IN  [st1 EXCEPT !.M = record_dlr_status(
                                            record_dlr_state(st1.M, idx, dlr.ms),
                                            idx, is_delivered(dlr.ms), is_failed(dlr.ms))]

process_deliver_sm(deliver, st, idx) ==
    textual_fallback(deliver.short_message,
                     message_state_loop(deliver.tlvs,
                                        receipted_loop(deliver.tlvs, st, idx), idx),
                     idx)

\* a DLR state is recorded for a deliver_sm through the TLV path (it carries
\* a message_state TLV) or through the textual path (its text parses)
RECURSIVE has_message_state(_)
has_message_state(tlvs) ==
    IF tlvs = << >> THEN FALSE
    ELSE Head(tlvs).tag = "MessageState" \/ has_message_state(Tail(tlvs))

records_state(pdu) ==
    \/ has_message_state(pdu.tlvs)
    \/ pdu.short_message.utf8 /\ parse_textual_dlr(pdu.short_message.tokens).some

(***************************************************************************)
(* worker.rs: submissions.  A SubmissionOutcome is (result, latency); the  *)
(* FuturesUnordered holds the futures still on the wire (pending) and the  *)
(* bag of outcomes completed and not yet taken by inflight.next().         *)
(***************************************************************************)
\* start.elapsed() of a submission, in microseconds
SubmitLatency == 5

\* the message ids the server returns in submit_sm_resp
MsgIds == {"a", ""}

OkOutcome(m) == [ok |-> TRUE, message_id |-> m, latency |-> SubmitLatency]
ErrOutcome == [ok |-> FALSE, message_id |-> "", latency |-> SubmitLatency]

NoInflight == [pending |-> 0, ready |-> EmptyBag]

len(f) == f.pending + BagCardinality(f.ready)
is_empty(f) == len(f) = 0

\* n calls of inflight.push(submit_once(..))
push(f, n) == [f EXCEPT !.pending = @ + n]

complete(f, o) == [pending |-> f.pending - 1, ready |-> f.ready (+) SetToBag({o})]
take(f, o) == [f EXCEPT !.ready = @ (-) SetToBag({o})]

\* fill_inflight: the number of submissions its while loop pushes
fill_inflight_inclusive(f, maxInflight) ==
    IF len(f) <= maxInflight THEN maxInflight - len(f) + 1 ELSE 0

fill_inflight(f, maxInflight) ==
    IF len(f) < maxInflight THEN maxInflight - len(f) ELSE 0

\* queue_if_capacity: the number of submissions it pushes
queue_if_capacity(f, maxInflight) ==
    IF len(f) < maxInflight THEN 1 ELSE 0

\* u32, with its 32 bits scaled to 16
U32_MAX == 65535

\* u32 += in a build without overflow checks
wrapping_add(x, v) == (x + v) % (U32_MAX + 1)

\* the grant of one tick: max_tps / ticks_per_sec and the carry of the
\* remainder
tick_grant(rem, tps) ==
    (tps \div ticks_per_sec)
        + (IF rem + (tps % ticks_per_sec) >= ticks_per_sec THEN 1 ELSE 0)

\* the tick branch, up to its while loop: allowance and remainder after the
\* grant of one tick
\* (the additions wrap where the build does not check them)
tick_step_strict(allow, rem, tps) ==
    LET a1 == wrapping_add(allow, tps \div ticks_per_sec)
        r1 == rem + (tps % ticks_per_sec)
    IN  IF r1 > ticks_per_sec
        THEN [allowance |-> wrapping_add(a1, 1), remainder |-> r1 - ticks_per_sec]
        ELSE [allowance |-> a1, remainder |-> r1]

tick_step(allow, rem, tps) ==
    LET a1 == wrapping_add(allow, tps \div ticks_per_sec)
        r1 == rem + (tps % ticks_per_sec)
    IN  IF r1 >= ticks_per_sec
        THEN [allowance |-> wrapping_add(a1, 1), remainder |-> r1 - ticks_per_sec]
        ELSE [allowance |-> a1, remainder |-> r1]

\* the while loop of the tick branch: the number of submissions it pushes
tick_pushes_unmetered(allow, f, maxInflight) ==
    IF len(f) < maxInflight THEN maxInflight - len(f) ELSE 0

tick_pushes(allow, f, maxInflight) ==
    IF allow > 0 /\ len(f) < maxInflight
    THEN (IF allow < maxInflight - len(f) THEN allow ELSE maxInflight - len(f))
    ELSE 0

\* handle_outcome treating a failed submission as the end of the bind
handle_outcome_fatal(i, o) ==
    IF o.ok
    THEN /\ metrics' = record_success(metrics, i, o.latency)
         /\ statuses' = set_last_message_id(statuses, i, SomeMessageId(o.message_id))
         /\ sent_index' = [sent_index EXCEPT ![i] = @ \cup {o.message_id}]
    ELSE /\ metrics' = record_error(metrics, i, o.latency)
         /\ statuses' = set_state(statuses, i, Error("submit_sm failed"))
         /\ UNCHANGED sent_index

\* handle_outcome
handle_outcome(i, o) ==
    IF o.ok
    THEN /\ metrics' = record_success(metrics, i, o.latency)
         /\ statuses' = set_last_message_id(statuses, i, SomeMessageId(o.message_id))
         /\ sent_index' = [sent_index EXCEPT ![i] = @ \cup {o.message_id}]
    ELSE /\ metrics' = record_error(metrics, i, o.latency)
         /\ UNCHANGED << statuses, sent_index >>

\* the loop condition, while !shutdown.is_cancelled(), after a select branch
loop_or_drain(sel) == IF shutdown THEN "drain" ELSE sel

(***************************************************************************)
(* The observation window: opened once, before some tick; it counts the    *)
(* ticks that fire after it, what they grant and what they issue, and      *)
(* closes with the tick after its hundredth.                               *)
(***************************************************************************)
WindowBefore == [state |-> "before", ticks |-> 0, issued |-> 0, grants |-> 0]
WindowOpen == [state |-> "open", ticks |-> 0, issued |-> 0, grants |-> 0]
WindowClosed == [state |-> "closed", ticks |-> 0, issued |-> 0, grants |-> 0]

window_tick(w, grant, pushes) ==
    IF w.state # "open" THEN w
    ELSE IF w.ticks = ticks_per_sec THEN WindowClosed
    ELSE [w EXCEPT !.ticks = @ + 1, !.issued = @ + pushes, !.grants = @ + grant]

(***************************************************************************)
(* main.rs and worker.rs: the session driver, one task per bind.           *)
(***************************************************************************)
\* no record_success / record_error call in progress
NoWrite == [n |-> 0, op |-> "none", idx |-> 0, state |-> Pending,
            message_id |-> NoMessageId]

NoRecord == [op |-> "none", step |-> 0, outcome |-> ErrOutcome]

NoCalls == [connect |-> 0, bind |-> 0, unbind |-> 0, unbind_failed |-> FALSE,
            close |-> 0]

NoEvent == [ev |-> "None", id |-> "", sequence_number |-> 0,
            pdu |-> DeliverSm(<< >>, Text(<< >>)), first |-> FALSE, known |-> FALSE]

\* spawn_bind, up to the call of run_bind
SpawnBind(i) ==
    /\ pc[i] = "spawned"
    /\ statuses' = set_state(statuses, i, Connecting)
    /\ statePath' = observe(statePath, i, Connecting)
    /\ pc' = [pc EXCEPT ![i] = "connect"]
    /\ UNCHANGED << config, rec, snapshot, last_write, shutdown, supPc, metrics, result, client, calls,
                    loopVars, sent_index, dispatchVars, serverVars, win >>

\* run_bind: connect, a failure counted as an error of the bind
ConnectCounted(i) ==
    /\ pc[i] = "connect"
    /\ calls' = [calls EXCEPT ![i].connect = @ + 1]
    /\ \E ok \in BOOLEAN :
         IF ok
         THEN /\ client' = [client EXCEPT ![i] = "open"]
              /\ pc' = [pc EXCEPT ![i] = "bind"]
              /\ UNCHANGED << result, metrics >>
         ELSE /\ pc' = [pc EXCEPT ![i] = "failed"]
              /\ result' = [result EXCEPT ![i] = "failed to connect to SMPP server"]
              /\ metrics' = record_error(metrics, i, 0)
              /\ UNCHANGED client
    /\ UNCHANGED << config, rec, snapshot, last_write, shutdown, supPc, registryVars, loopVars,
                    sent_index, dispatchVars, serverVars, win >>

\* run_bind: ConnectionBuilder .. connect(..).await
Connect(i) ==
    /\ pc[i] = "connect"
    /\ calls' = [calls EXCEPT ![i].connect = @ + 1]
    /\ \E ok \in BOOLEAN :
         IF ok
         THEN /\ client' = [client EXCEPT ![i] = "open"]
              /\ pc' = [pc EXCEPT ![i] = "bind"]
              /\ UNCHANGED result
         ELSE /\ pc' = [pc EXCEPT ![i] = "failed"]
              /\ result' = [result EXCEPT ![i] = "failed to connect to SMPP server"]
              /\ UNCHANGED client
    /\ UNCHANGED << config, rec, snapshot, last_write, shutdown, supPc, registryVars, metrics, loopVars,
                    sent_index, dispatchVars, serverVars, win >>

\* run_bind: build the bind PDU, then bind_transceiver / bind_transmitter
Bind(i) ==
    /\ pc[i] = "bind"
    /\ \E built \in BOOLEAN, ok \in BOOLEAN :
         IF ~built
         THEN /\ pc' = [pc EXCEPT ![i] = "failed"]
              /\ result' = [result EXCEPT ![i] = "failed to build bind request"]
              /\ UNCHANGED calls
         ELSE /\ calls' = [calls EXCEPT ![i].bind = @ + 1]
              /\ IF ok
                 THEN /\ pc' = [pc EXCEPT ![i] = "bound"]
                      /\ UNCHANGED result
                 ELSE /\ pc' = [pc EXCEPT ![i] = "failed"]
                      /\ result' = [result EXCEPT ![i] = "failed to bind"]
    /\ UNCHANGED << config, rec, snapshot, last_write, shutdown, supPc, registryVars, metrics, client,
                    loopVars, sent_index, dispatchVars, serverVars, win >>

\* run_bind: set_state(Bound), build_submit_sm, spawn the event dispatcher
SetBound(i) ==
    /\ pc[i] = "bound"
    /\ statuses' = set_state(statuses, i, Bound)
    /\ statePath' = observe(statePath, i, Bound)
    /\ \E built \in BOOLEAN :
         IF built
         THEN /\ pc' = [pc EXCEPT ![i] = "submit_loop"]
              /\ dpc' = [dpc EXCEPT ![i] = "next"]
              /\ UNCHANGED result
         ELSE /\ pc' = [pc EXCEPT ![i] = "failed"]
              /\ result' = [result EXCEPT ![i] = "failed to build submit_sm"]
              /\ UNCHANGED dpc
    /\ UNCHANGED << config, rec, snapshot, last_write, shutdown, supPc, metrics, client, calls, loopVars,
                    sent_index, cur, acks, classified, serverVars, win >>

\* drive_submit_loop: its arguments from the configuration, and its branch
DriveSubmitLoop(i) ==
    /\ pc[i] = "submit_loop"
    /\ max_tps' = [max_tps EXCEPT ![i] = max_tps_per_bind(config)]
    /\ max_inflight' = [max_inflight EXCEPT ![i] = Max(inflight_per_bind(config), 1)]
    /\ pc' = [pc EXCEPT ![i] = IF max_tps_per_bind(config) = 0
                               THEN "unthrottled" ELSE "throttled"]
    /\ UNCHANGED << config, rec, snapshot, last_write, shutdown, supPc, registryVars, metrics, result,
                    client, calls, allowance, remainder, ticks, issued, granted,
                    inflight, sent_index, dispatchVars, serverVars, win >>

\* drive_unthrottled_loop, up to its loop: fill_inflight
UnthrottledEntry(i) ==
    /\ pc[i] = "unthrottled"
    /\ inflight' = [inflight EXCEPT
                      ![i] = push(@, fill_inflight(@, max_inflight[i]))]
    /\ issued' = [issued EXCEPT
                    ![i] = @ + fill_inflight(inflight[i], max_inflight[i])]
    /\ pc' = [pc EXCEPT ![i] = loop_or_drain("uselect")]
    /\ UNCHANGED << config, rec, snapshot, last_write, shutdown, supPc, registryVars, metrics, result,
                    client, calls, max_tps, max_inflight, allowance, remainder,
                    ticks, granted, sent_index, dispatchVars, serverVars, win >>

\* drive_unthrottled_loop, select: the cancelled branch
USelectCancelled(i) ==
    /\ pc[i] = "uselect"
    /\ shutdown
    /\ pc' = [pc EXCEPT ![i] = "drain"]
    /\ UNCHANGED << config, rec, snapshot, last_write, shutdown, supPc, registryVars, metrics, result,
                    client, calls, loopVars, sent_index, dispatchVars,
                    serverVars, win >>

\* drive_unthrottled_loop, select: the completion branch
USelectOutcome(i) ==
    /\ pc[i] = "uselect"
    /\ \E o \in BagToSet(inflight[i].ready) :
         /\ handle_outcome(i, o)
         /\ inflight' = [inflight EXCEPT
                           ![i] = push(take(@, o),
                                       queue_if_capacity(take(@, o), max_inflight[i]))]
         /\ issued' = [issued EXCEPT
                         ![i] = @ + queue_if_capacity(take(inflight[i], o),
                                                      max_inflight[i])]
    /\ pc' = [pc EXCEPT ![i] = loop_or_drain("uselect")]
    /\ UNCHANGED << config, rec, snapshot, last_write, shutdown, supPc, statePath, result, client, calls,
                    max_tps, max_inflight, allowance, remainder, ticks, granted,
                    dispatchVars, serverVars, win >>

\* drive_throttled_loop, up to its loop
ThrottledEntry(i) ==
    /\ pc[i] = "throttled"
    /\ allowance' = [allowance EXCEPT ![i] = 0]
    /\ remainder' = [remainder EXCEPT ![i] = 0]
    /\ pc' = [pc EXCEPT ![i] = loop_or_drain("select")]
    /\ UNCHANGED << config, rec, snapshot, last_write, shutdown, supPc, registryVars, metrics, result,
                    client, calls, max_tps, max_inflight, ticks, issued, granted,
                    inflight, sent_index, dispatchVars, serverVars, win >>

\* drive_throttled_loop, select: the cancelled branch
SelectCancelled(i) ==
    /\ pc[i] = "select"
    /\ shutdown
    /\ pc' = [pc EXCEPT ![i] = "drain"]
    /\ UNCHANGED << config, rec, snapshot, last_write, shutdown, supPc, registryVars, metrics, result,
                    client, calls, loopVars, sent_index, dispatchVars,
                    serverVars, win >>

\* drive_throttled_loop, select: the completion branch
SelectOutcome(i) ==
    /\ pc[i] = "select"
    /\ ~is_empty(inflight[i])
    /\ \E o \in BagToSet(inflight[i].ready) :
         /\ handle_outcome(i, o)
         /\ inflight' = [inflight EXCEPT ![i] = take(@, o)]
    /\ pc' = [pc EXCEPT ![i] = loop_or_drain("select")]
    /\ UNCHANGED << config, rec, snapshot, last_write, shutdown, supPc, statePath, result, client, calls,
                    max_tps, max_inflight, allowance, remainder, ticks, issued,
                    granted, dispatchVars, serverVars, win >>

\* drive_throttled_loop, the tick branch in a build with overflow checks:
\* an allowance += that does not fit u32 panics, the task ends with its
\* futures dropped and spawn_bind records nothing
SelectTickPanics(i, limit) ==
    /\ pc[i] = "select"
    /\ ticks[i] < limit
    /\ allowance[i] + tick_grant(remainder[i], max_tps[i]) > U32_MAX
    /\ ticks' = [ticks EXCEPT ![i] = @ + 1]
    /\ inflight' = [inflight EXCEPT ![i] = NoInflight]
    /\ result' = [result EXCEPT ![i] = "attempt to add with overflow"]
    /\ pc' = [pc EXCEPT ![i] = "done"]
    /\ UNCHANGED << config, rec, snapshot, last_write, shutdown, supPc,
                    registryVars, metrics, client, calls, max_tps, max_inflight,
                    allowance, remainder, issued, granted, sent_index,
                    dispatchVars, serverVars, win >>

\* the tick branch with a bucket that holds no grant over to the next tick
SelectTickLossy(i, limit) ==
    /\ pc[i] = "select"
    /\ ticks[i] < limit
    /\ LET step == tick_step(allowance[i], remainder[i], max_tps[i])
           grant == tick_grant(remainder[i], max_tps[i])
           pushes == tick_pushes(step.allowance, inflight[i], max_inflight[i])
       IN  /\ allowance' = [allowance EXCEPT ![i] = 0]
           /\ remainder' = [remainder EXCEPT ![i] = step.remainder]
           /\ inflight' = [inflight EXCEPT ![i] = push(@, pushes)]
           /\ issued' = [issued EXCEPT ![i] = @ + pushes]
           /\ granted' = [granted EXCEPT ![i] = @ + grant]
           /\ win' = window_tick(win, grant, pushes)
    /\ ticks' = [ticks EXCEPT ![i] = @ + 1]
    /\ pc' = [pc EXCEPT ![i] = loop_or_drain("select")]
    /\ UNCHANGED << config, rec, snapshot, last_write, shutdown, supPc, registryVars, metrics, result,
                    client, calls, max_tps, max_inflight, sent_index,
                    dispatchVars, serverVars >>

\* drive_throttled_loop, select: the tick branch; the ticker fires at most
\* limit times
SelectTick(i, limit) ==
    /\ pc[i] = "select"
    /\ ticks[i] < limit
    /\ LET step == tick_step(allowance[i], remainder[i], max_tps[i])
           grant == tick_grant(remainder[i], max_tps[i])
           pushes == tick_pushes(step.allowance, inflight[i], max_inflight[i])
       IN  /\ allowance' = [allowance EXCEPT ![i] = step.allowance - pushes]
           /\ remainder' = [remainder EXCEPT ![i] = step.remainder]
           /\ inflight' = [inflight EXCEPT ![i] = push(@, pushes)]
           /\ issued' = [issued EXCEPT ![i] = @ + pushes]
           /\ granted' = [granted EXCEPT ![i] = @ + grant]
           /\ win' = window_tick(win, grant, pushes)
    /\ ticks' = [ticks EXCEPT ![i] = @ + 1]
    /\ pc' = [pc EXCEPT ![i] = loop_or_drain("select")]
    /\ UNCHANGED << config, rec, snapshot, last_write, shutdown, supPc, registryVars, metrics, result,
                    client, calls, max_tps, max_inflight, sent_index,
                    dispatchVars, serverVars >>

\* drive_throttled_loop, select: the completion branch, up to the first
\* fetch_add of record_success / record_error
SelectOutcomeEnter(i) ==
    /\ pc[i] = "select"
    /\ ~is_empty(inflight[i])
    /\ \E o \in BagToSet(inflight[i].ready) :
         /\ inflight' = [inflight EXCEPT ![i] = take(@, o)]
         /\ rec' = [rec EXCEPT ![i] = [op |-> IF o.ok THEN "success" ELSE "error",
                                       step |-> 1, outcome |-> o]]
    /\ pc' = [pc EXCEPT ![i] = "record"]
    /\ UNCHANGED << config, snapshot, last_write, shutdown, supPc, registryVars, metrics, result,
                    client, calls, max_tps, max_inflight, allowance, remainder,
                    ticks, issued, granted, sent_index, dispatchVars,
                    serverVars, win >>

\* one fetch_add of the record call; after the last one the rest of
\* handle_outcome, and the loop condition
RecordStep(i) ==
    /\ pc[i] = "record"
    /\ metrics' = record_step(metrics, i, rec[i].op, rec[i].step,
                              rec[i].outcome.latency)
    /\ IF rec[i].step < record_steps
       THEN /\ rec' = [rec EXCEPT ![i].step = @ + 1]
            /\ UNCHANGED << pc, statuses, sent_index >>
       ELSE /\ rec' = [rec EXCEPT ![i] = NoRecord]
            /\ pc' = [pc EXCEPT ![i] = loop_or_drain("select")]
            /\ IF rec[i].op = "success"
               THEN /\ statuses' = set_last_message_id(
                                       statuses, i,
                                       SomeMessageId(rec[i].outcome.message_id))
                    /\ sent_index' = [sent_index EXCEPT
                                         ![i] = @ \cup {rec[i].outcome.message_id}]
               ELSE UNCHANGED << statuses, sent_index >>
    /\ UNCHANGED << config, snapshot, last_write, shutdown, supPc, statePath, result, client, calls,
                    loopVars, dispatchVars, serverVars, win >>

\* drain_inflight: one completion taken and handled
DrainDrop(i) ==
    /\ pc[i] = "drain"
    /\ \E o \in BagToSet(inflight[i].ready) :
         inflight' = [inflight EXCEPT ![i] = take(@, o)]
    /\ UNCHANGED << config, rec, snapshot, last_write, shutdown, supPc, registryVars, metrics, sessionVars,
                    max_tps, max_inflight, allowance, remainder, ticks, issued,
                    granted, sent_index, dispatchVars, serverVars, win >>

DrainNext(i) ==
    /\ pc[i] = "drain"
    /\ \E o \in BagToSet(inflight[i].ready) :
         /\ handle_outcome(i, o)
         /\ inflight' = [inflight EXCEPT ![i] = take(@, o)]
    /\ UNCHANGED << config, rec, snapshot, last_write, shutdown, supPc, statePath, sessionVars, max_tps,
                    max_inflight, allowance, remainder, ticks, issued, granted,
                    dispatchVars, serverVars, win >>

\* drain_inflight returning only while submissions are outstanding
DrainDoneInverted(i) ==
    /\ pc[i] = "drain"
    /\ ~is_empty(inflight[i])
    /\ pc' = [pc EXCEPT ![i] = "unbind"]
    /\ UNCHANGED << config, rec, snapshot, last_write, shutdown, supPc, registryVars, metrics, result,
                    client, calls, loopVars, sent_index, dispatchVars,
                    serverVars, win >>

\* drain_inflight: inflight.next() yields None; the loop function returns Ok
DrainDone(i) ==
    /\ pc[i] = "drain"
    /\ is_empty(inflight[i])
    /\ pc' = [pc EXCEPT ![i] = "unbind"]
    /\ UNCHANGED << config, rec, snapshot, last_write, shutdown, supPc, registryVars, metrics, result,
                    client, calls, loopVars, sent_index, dispatchVars,
                    serverVars, win >>

\* run_bind with client.unbind().await?: a failed unbind returns Err
UnbindFatal(i) ==
    /\ pc[i] = "unbind"
    /\ \E ok \in BOOLEAN :
         /\ calls' = [calls EXCEPT ![i].unbind = @ + 1, ![i].unbind_failed = ~ok]
         /\ pc' = [pc EXCEPT ![i] = IF ok THEN "close" ELSE "failed"]
         /\ result' = [result EXCEPT ![i] = IF ok THEN @ ELSE "unbind failed"]
    /\ UNCHANGED << config, rec, snapshot, last_write, shutdown, supPc, registryVars, metrics,
                    client, loopVars, sent_index, dispatchVars, serverVars, win >>

\* run_bind: client.unbind().await.ok(): the call returns Ok or Err and the
\* result is dropped
Unbind(i) ==
    /\ pc[i] = "unbind"
    /\ \E ok \in BOOLEAN :
         calls' = [calls EXCEPT ![i].unbind = @ + 1, ![i].unbind_failed = ~ok]
    /\ pc' = [pc EXCEPT ![i] = "close"]
    /\ UNCHANGED << config, rec, snapshot, last_write, shutdown, supPc, registryVars, metrics, result,
                    client, loopVars, sent_index, dispatchVars, serverVars, win >>

\* run_bind: client.close().await.ok(); Ok(()) to spawn_bind, which returns
Close(i) ==
    /\ pc[i] = "close"
    /\ calls' = [calls EXCEPT ![i].close = @ + 1]
    /\ client' = [client EXCEPT ![i] = "closed"]
    /\ streamEnded' = [streamEnded EXCEPT ![i] = TRUE]
    /\ pc' = [pc EXCEPT ![i] = "done"]
    /\ UNCHANGED << config, rec, snapshot, last_write, shutdown, supPc, registryVars, metrics, result,
                    loopVars, sent_index, dispatchVars, events, emitted,
                    respondedIds, dlrFor, win >>

\* spawn_bind: run_bind returned Err
RecordErrorAsPending(i) ==
    /\ pc[i] = "failed"
    /\ statuses' = set_state(statuses, i, Pending)
    /\ statePath' = observe(statePath, i, Pending)
    /\ pc' = [pc EXCEPT ![i] = "done"]
    /\ UNCHANGED << config, rec, snapshot, last_write, shutdown, supPc, metrics, result, client, calls,
                    loopVars, sent_index, dispatchVars, serverVars, win >>

\* spawn_bind: run_bind returned Err; Error recorded, the session run again
RecordErrorRetry(i) ==
    /\ pc[i] = "failed"
    /\ statuses' = set_state(statuses, i, Error(result[i]))
    /\ statePath' = observe(statePath, i, Error(result[i]))
    /\ pc' = [pc EXCEPT ![i] = "connect"]
    /\ UNCHANGED << config, rec, snapshot, last_write, shutdown, supPc, metrics, result, client, calls,
                    loopVars, sent_index, dispatchVars, serverVars, win >>

\* spawn_bind: run_bind returned Err; Error recorded and the shared token
\* cancelled
RecordErrorCancels(i) ==
    /\ pc[i] = "failed"
    /\ statuses' = set_state(statuses, i, Error(result[i]))
    /\ statePath' = observe(statePath, i, Error(result[i]))
    /\ shutdown' = TRUE
    /\ pc' = [pc EXCEPT ![i] = "done"]
    /\ UNCHANGED << config, rec, snapshot, last_write, supPc, metrics, result, client, calls,
                    loopVars, sent_index, dispatchVars, serverVars, win >>

RecordError(i) ==
    /\ pc[i] = "failed"
    /\ statuses' = set_state(statuses, i, Error(result[i]))
    /\ statePath' = observe(statePath, i, Error(result[i]))
    /\ pc' = [pc EXCEPT ![i] = "done"]
    /\ UNCHANGED << config, rec, snapshot, last_write, shutdown, supPc, metrics, result, client, calls,
                    loopVars, sent_index, dispatchVars, serverVars, win >>

(***************************************************************************)
(* The environment: the SMPP server and the codec's connection.            *)
(***************************************************************************)
\* the submissions of session i that have completed
Completed(i) == issued[i] - inflight[i].pending

\* the unthrottled loop replaces every completion: while it runs, the server
\* completes at most limit submissions
Responsive(i, limit) == pc[i] = "uselect" => Completed(i) < limit

\* a submit_sm future completes with a submit_sm_resp carrying one of ids
ServerRespond(i, ids, limit) ==
    /\ inflight[i].pending > 0
    /\ ~streamEnded[i]
    /\ Responsive(i, limit)
    /\ \E m \in ids :
         /\ inflight' = [inflight EXCEPT ![i] = complete(@, OkOutcome(m))]
         /\ respondedIds' = [respondedIds EXCEPT ![i] = @ \cup {m}]
    /\ UNCHANGED << config, rec, snapshot, last_write, shutdown, supPc, registryVars, metrics, sessionVars,
                    max_tps, max_inflight, allowance, remainder, ticks, issued,
                    granted, sent_index, dispatchVars, events, streamEnded,
                    emitted, dlrFor, win >>

\* a submit_sm future completes with a client error (response timeout,
\* connection closed)
ClientError(i, limit) ==
    /\ inflight[i].pending > 0
    /\ Responsive(i, limit)
    /\ inflight' = [inflight EXCEPT ![i] = complete(@, ErrOutcome)]
    /\ UNCHANGED << config, rec, snapshot, last_write, shutdown, supPc, registryVars, metrics, sessionVars,
                    max_tps, max_inflight, allowance, remainder, ticks, issued,
                    granted, sent_index, dispatchVars, serverVars, win >>

\* a submit_sm future completes with a submit_sm_resp after more
\* microseconds than a u64 holds
ServerRespondLate(i, limit) ==
    /\ inflight[i].pending > 0
    /\ ~streamEnded[i]
    /\ Responsive(i, limit)
    /\ inflight' = [inflight EXCEPT
                      ![i] = complete(@, [OkOutcome("a") EXCEPT !.latency = U64_MAX + 1])]
    /\ respondedIds' = [respondedIds EXCEPT ![i] = @ \cup {"a"}]
    /\ UNCHANGED << config, rec, snapshot, last_write, shutdown, supPc, registryVars, metrics, sessionVars,
                    max_tps, max_inflight, allowance, remainder, ticks, issued,
                    granted, sent_index, dispatchVars, events, streamEnded,
                    emitted, dlrFor, win >>

\* the event stream is live: the session is bound and the connection is up
StreamLive(i) ==
    /\ client[i] = "open"
    /\ pc[i] \notin {"spawned", "connect", "bind", "failed", "done"}
    /\ ~streamEnded[i]

Incoming(i, id, pdu) ==
    [ev |-> "Incoming", id |-> id, sequence_number |-> emitted[i] + 1, pdu |-> pdu,
     first |-> /\ NamedIds(pdu) # {}
               /\ NamedIds(pdu) \subseteq respondedIds[i] \ ({""} \cup dlrFor[i]),
     known |-> NamedIds(pdu) # {} /\ NamedIds(pdu) \subseteq sent_index[i]]

\* the server sends a deliver_sm, one of pdus, while it has emitted fewer
\* than limit events
ServerDeliverUpTo(i, pdus, limit) ==
    /\ StreamLive(i)
    /\ emitted[i] < limit
    /\ \E pdu \in pdus :
         /\ events' = [events EXCEPT ![i] = Append(@, Incoming(i, "DeliverSm", pdu))]
         /\ dlrFor' = [dlrFor EXCEPT ![i] = @ \cup NamedIds(pdu)]
    /\ emitted' = [emitted EXCEPT ![i] = @ + 1]
    /\ UNCHANGED << config, rec, snapshot, last_write, shutdown, supPc, registryVars, metrics, sessionVars,
                    loopVars, sent_index, dispatchVars, streamEnded,
                    respondedIds, win >>

ServerDeliver(i, pdus) == ServerDeliverUpTo(i, pdus, MaxEvents)

\* the stream yields another command (enquire_link) or a background error
ServerOther(i) ==
    /\ StreamLive(i)
    /\ emitted[i] < MaxEvents
    /\ \E e \in {[NoEvent EXCEPT !.ev = "Incoming", !.id = "EnquireLink",
                                 !.sequence_number = emitted[i] + 1],
                 [NoEvent EXCEPT !.ev = "Error"]} :
         events' = [events EXCEPT ![i] = Append(@, e)]
    /\ emitted' = [emitted EXCEPT ![i] = @ + 1]
    /\ UNCHANGED << config, rec, snapshot, last_write, shutdown, supPc, registryVars, metrics, sessionVars,
                    loopVars, sent_index, dispatchVars, streamEnded,
                    respondedIds, dlrFor, win >>

\* the connection is lost: the stream ends after the events already queued
StreamEnd(i) ==
    /\ StreamLive(i)
    /\ streamEnded' = [streamEnded EXCEPT ![i] = TRUE]
    /\ UNCHANGED << config, rec, snapshot, last_write, shutdown, supPc, registryVars, metrics, sessionVars,
                    loopVars, sent_index, dispatchVars, events, emitted,
                    respondedIds, dlrFor, win >>

(***************************************************************************)
(* worker.rs: the event dispatcher task of a session.                      *)
(***************************************************************************)
\* events.next().await yields an event: the cancellation check, then the
\* match up to the deliver_sm_resp call
DispatchNext(i) ==
    /\ dpc[i] = "next"
    /\ events[i] # << >>
    /\ events' = [events EXCEPT ![i] = Tail(@)]
    /\ LET event == Head(events[i])
       IN  IF shutdown
           THEN /\ dpc' = [dpc EXCEPT ![i] = "exited"]
                /\ UNCHANGED << cur, acks >>
           ELSE IF event.ev = "Incoming" /\ event.id = "DeliverSm"
           THEN /\ dpc' = [dpc EXCEPT ![i] = "ack"]
                /\ cur' = [cur EXCEPT ![i] = event]
                /\ acks' = [acks EXCEPT ![i] = Append(@, event.sequence_number)]
           ELSE UNCHANGED << dpc, cur, acks >>
    /\ UNCHANGED << config, rec, snapshot, last_write, shutdown, supPc, registryVars, metrics, sessionVars,
                    loopVars, sent_index, classified, streamEnded, emitted,
                    respondedIds, dlrFor, win >>

\* events.next().await yields None
DispatchEnd(i) ==
    /\ dpc[i] = "next"
    /\ events[i] = << >>
    /\ streamEnded[i]
    /\ dpc' = [dpc EXCEPT ![i] = "exited"]
    /\ UNCHANGED << config, rec, snapshot, last_write, shutdown, supPc, registryVars, metrics, sessionVars,
                    loopVars, sent_index, cur, acks, classified, serverVars, win >>

\* deliver_sm_resp(..).await returned (its result is dropped): the TLV loops
\* and the textual fallback
DispatchDeliver(i) ==
    /\ dpc[i] = "ack"
    /\ LET st == process_deliver_sm(cur[i].pdu,
                                    [M |-> metrics, SI |-> sent_index[i]], i)
       IN  /\ metrics' = st.M
           /\ sent_index' = [sent_index EXCEPT ![i] = st.SI]
    /\ classified' = [classified EXCEPT
                         ![i] = @ + (IF records_state(cur[i].pdu) THEN 1 ELSE 0)]
    /\ dpc' = [dpc EXCEPT ![i] = "next"]
    /\ UNCHANGED << config, rec, snapshot, last_write, shutdown, supPc, registryVars, sessionVars, loopVars,
                    cur, acks, serverVars, win >>

(***************************************************************************)
(* main.rs: the supervisor.                                                *)
(***************************************************************************)
\* select: ctrl_c; shutdown.cancel()
CtrlC ==
    /\ supPc = "running"
    /\ shutdown' = TRUE
    /\ supPc' = "joining"
    /\ UNCHANGED << config, rec, snapshot, last_write, registryVars, metrics, sessionVars, loopVars,
                    sent_index, dispatchVars, serverVars, win >>

\* every task awaited; shutdown.cancel()
Join ==
    /\ supPc = "joining"
    /\ \A i \in Idx : pc[i] = "done"
    /\ shutdown' = TRUE
    /\ supPc' = "stopped"
    /\ UNCHANGED << config, rec, snapshot, last_write, registryVars, metrics, sessionVars, loopVars,
                    sent_index, dispatchVars, serverVars, win >>

\* a caller of BindTracker::set_state with any index and state
TrackerSetState(idx, state) ==
    /\ last_write.n < MaxWrites
    /\ statuses' = set_state(statuses, idx, state)
    /\ statePath' = observe(statePath, idx, state)
    /\ last_write' = [n |-> last_write.n + 1, op |-> "set_state", idx |-> idx,
                      state |-> state, message_id |-> NoMessageId]
    /\ UNCHANGED << config, rec, snapshot, shutdown, supPc, metrics, sessionVars,
                    loopVars, sent_index, dispatchVars, serverVars, win >>

\* a caller of BindTracker::set_last_message_id with any index and id
TrackerSetLastMessageId(idx, message_id) ==
    /\ last_write.n < MaxWrites
    /\ statuses' = set_last_message_id(statuses, idx, message_id)
    /\ last_write' = [n |-> last_write.n + 1, op |-> "set_last_message_id",
                      idx |-> idx, state |-> Pending, message_id |-> message_id]
    /\ UNCHANGED << config, rec, snapshot, shutdown, supPc, statePath, metrics,
                    sessionVars, loopVars, sent_index, dispatchVars, serverVars,
                    win >>

\* a reader's BindTracker::snapshot: statuses.read().await.clone()
TrackerSnapshot ==
    /\ snapshot' = Some(statuses)
    /\ UNCHANGED << config, rec, last_write, shutdown, supPc, registryVars, metrics,
                    sessionVars, loopVars, sent_index, dispatchVars, serverVars,
                    win >>

\* the observation window opens
OpenWindow ==
    /\ win.state = "before"
    /\ win' = WindowOpen
    /\ UNCHANGED << config, rec, snapshot, last_write, shutdown, supPc, registryVars, metrics, sessionVars,
                    loopVars, sent_index, dispatchVars, serverVars >>

(***************************************************************************)
(* Initial states.                                                         *)
(***************************************************************************)
\* the state main builds from a configuration before it spawns the sessions
Startup(load) ==
    /\ config = load
    /\ shutdown = FALSE
    /\ supPc = "running"
    /\ statuses = BindTrackerNew(load.binds)
    /\ statePath = [k \in 0 .. (load.binds - 1) |-> << "Pending" >>]
    /\ metrics = MetricsNew(load.binds)
    /\ pc = [k \in 0 .. (load.binds - 1) |-> "spawned"]
    /\ result = [k \in 0 .. (load.binds - 1) |-> ""]
    /\ client = [k \in 0 .. (load.binds - 1) |-> "none"]
    /\ calls = [k \in 0 .. (load.binds - 1) |-> NoCalls]
    /\ max_tps = [k \in 0 .. (load.binds - 1) |-> 0]
    /\ max_inflight = [k \in 0 .. (load.binds - 1) |-> 0]
    /\ allowance = [k \in 0 .. (load.binds - 1) |-> 0]
    /\ remainder = [k \in 0 .. (load.binds - 1) |-> 0]
    /\ ticks = [k \in 0 .. (load.binds - 1) |-> 0]
    /\ issued = [k \in 0 .. (load.binds - 1) |-> 0]
    /\ granted = [k \in 0 .. (load.binds - 1) |-> 0]
    /\ inflight = [k \in 0 .. (load.binds - 1) |-> NoInflight]
    /\ sent_index = [k \in 0 .. (load.binds - 1) |-> {}]
    /\ events = [k \in 0 .. (load.binds - 1) |-> << >>]
    /\ streamEnded = [k \in 0 .. (load.binds - 1) |-> FALSE]
    /\ dpc = [k \in 0 .. (load.binds - 1) |-> "off"]
    /\ cur = [k \in 0 .. (load.binds - 1) |-> NoEvent]
    /\ acks = [k \in 0 .. (load.binds - 1) |-> << >>]
    /\ classified = [k \in 0 .. (load.binds - 1) |-> 0]
    /\ rec = [k \in 0 .. (load.binds - 1) |-> NoRecord]
    /\ emitted = [k \in 0 .. (load.binds - 1) |-> 0]
    /\ respondedIds = [k \in 0 .. (load.binds - 1) |-> {}]
    /\ dlrFor = [k \in 0 .. (load.binds - 1) |-> {}]
    /\ win = WindowBefore
    /\ snapshot = None
    /\ last_write = NoWrite

\* one session at the call of drive_throttled_loop (tps > 0) or of
\* drive_unthrottled_loop (tps = 0) with these arguments: bound, its
\* dispatcher spawned, nothing submitted yet
AtLoop(tps, maxInflight) ==
    /\ config = [binds |-> 1, max_tps_per_bind |-> tps, inflight_per_bind |-> maxInflight]
    /\ shutdown = FALSE
    /\ supPc = "running"
    /\ statuses = [k \in {0} |-> BindStatusNew(Bound)]
    /\ statePath = [k \in {0} |-> << "Pending", "Connecting", "Bound" >>]
    /\ metrics = MetricsNew(1)
    /\ pc = [k \in {0} |-> IF tps = 0 THEN "unthrottled" ELSE "throttled"]
    /\ result = [k \in {0} |-> ""]
    /\ client = [k \in {0} |-> "open"]
    /\ calls = [k \in {0} |-> [NoCalls EXCEPT !.connect = 1, !.bind = 1]]
    /\ max_tps = [k \in {0} |-> tps]
    /\ max_inflight = [k \in {0} |-> maxInflight]
    /\ allowance = [k \in {0} |-> 0]
    /\ remainder = [k \in {0} |-> 0]
    /\ ticks = [k \in {0} |-> 0]
    /\ issued = [k \in {0} |-> 0]
    /\ granted = [k \in {0} |-> 0]
    /\ inflight = [k \in {0} |-> NoInflight]
    /\ sent_index = [k \in {0} |-> {}]
    /\ events = [k \in {0} |-> << >>]
    /\ streamEnded = [k \in {0} |-> FALSE]
    /\ dpc = [k \in {0} |-> "next"]
    /\ cur = [k \in {0} |-> NoEvent]
    /\ acks = [k \in {0} |-> << >>]
    /\ classified = [k \in {0} |-> 0]
    /\ rec = [k \in {0} |-> NoRecord]
    /\ emitted = [k \in {0} |-> 0]
    /\ respondedIds = [k \in {0} |-> {}]
    /\ dlrFor = [k \in {0} |-> {}]
    /\ win = WindowBefore
    /\ snapshot = None
    /\ last_write = NoWrite

(***************************************************************************)
(* Spec: the program, one bind, under the configurations of Loads.         *)
(***************************************************************************)
Loads ==
    {[binds |-> 1, max_tps_per_bind |-> 0, inflight_per_bind |-> 1],
     [binds |-> 1, max_tps_per_bind |-> 150, inflight_per_bind |-> 2]}

\* the deliver_sm PDUs the server sends under Spec
ServerPdus ==
    {DlrTlv("a", "Delivered"), DlrText("a", "DELIVRD"),
     DlrBoth("a", "Undeliverable", "UNDELIV")}

Init == \E load \in Loads : Startup(load)

Next ==
    \/ CtrlC
    \/ Join
    \/ \E i \in Idx : SpawnBind(i)
    \/ \E i \in Idx : Connect(i)
    \/ \E i \in Idx : Bind(i)
    \/ \E i \in Idx : SetBound(i)
    \/ \E i \in Idx : DriveSubmitLoop(i)
    \/ \E i \in Idx : ThrottledEntry(i)
    \/ \E i \in Idx : SelectCancelled(i)
    \/ \E i \in Idx : SelectOutcome(i)
    \/ \E i \in Idx : SelectTick(i, MaxTicks)
    \/ \E i \in Idx : DrainNext(i)
    \/ \E i \in Idx : DrainDone(i)
    \/ \E i \in Idx : Unbind(i)
    \/ \E i \in Idx : Close(i)
    \/ \E i \in Idx : RecordError(i)
    \/ \E i \in Idx : DispatchNext(i)
    \/ \E i \in Idx : DispatchEnd(i)
    \/ \E i \in Idx : DispatchDeliver(i)
    \/ \E i \in Idx : ServerRespond(i, MsgIds, MaxCompleted)
    \/ \E i \in Idx : ClientError(i, MaxCompleted)
    \/ \E i \in Idx : ServerDeliver(i, ServerPdus)
    \/ \E i \in Idx : ServerOther(i)
    \/ \E i \in Idx : StreamEnd(i)

Spec == Init /\ [][Next]_vars

(***************************************************************************)
(* SpecLoops: drive_throttled_loop and drive_unthrottled_loop called with  *)
(* the arguments of LoopTps and LoopInflight, up to their return.          *)
(***************************************************************************)
LoopTps == {0, 100, 250}
LoopInflight == {1, 2}

InitLoops == \E tps \in LoopTps, mi \in LoopInflight : AtLoop(tps, mi)

NextLoops ==
    \/ CtrlC
    \/ UnthrottledEntry(0)
    \/ USelectCancelled(0)
    \/ USelectOutcome(0)
    \/ ThrottledEntry(0)
    \/ SelectCancelled(0)
    \/ SelectOutcome(0)
    \/ SelectTick(0, MaxTicks)
    \/ DrainNext(0)
    \/ DrainDone(0)
    \/ ServerRespond(0, {"a"}, MaxCompleted)
    \/ ClientError(0, MaxCompleted)

SpecLoops == InitLoops /\ [][NextLoops]_vars

(***************************************************************************)
(* SpecThrottle: drive_throttled_loop over MaxThrottleTicks ticks, every   *)
(* submission answered with a submit_sm_resp.                              *)
(***************************************************************************)
ThrottleTps == {50, 99, 150, 250}

InitThrottle == \E tps \in ThrottleTps, mi \in LoopInflight : AtLoop(tps, mi)

NextThrottle ==
    \/ CtrlC
    \/ ThrottledEntry(0)
    \/ SelectCancelled(0)
    \/ SelectOutcome(0)
    \/ SelectTick(0, MaxThrottleTicks)
    \/ DrainNext(0)
    \/ DrainDone(0)
    \/ ServerRespond(0, {"a"}, MaxCompleted)

SpecThrottle == InitThrottle /\ [][NextThrottle]_vars

(***************************************************************************)
(* SpecGrants: the ticks of drive_throttled_loop over two seconds while    *)
(* the server answers nothing, with an observation window.                 *)
(***************************************************************************)
GrantTps == {1, 50, 99, 100, 101, 150, 250}

InitGrants == \E tps \in GrantTps : AtLoop(tps, 1)

NextGrants ==
    \/ OpenWindow
    \/ ThrottledEntry(0)
    \/ SelectTick(0, MaxGrantTicks)

SpecGrants == InitGrants /\ [][NextGrants]_vars

(***************************************************************************)
(* SpecWindow: drive_throttled_loop at 2 submissions per second and one    *)
(* submission in flight, the server answering when it will, with an        *)
(* observation window.                                                     *)
(***************************************************************************)
InitWindow == AtLoop(2, 1)

NextWindow ==
    \/ OpenWindow
    \/ ThrottledEntry(0)
    \/ SelectOutcome(0)
    \/ SelectTick(0, MaxWindowTicks)
    \/ ServerRespond(0, {"a"}, MaxCompleted)

SpecWindow == InitWindow /\ [][NextWindow]_vars

(***************************************************************************)
(* SpecDlr: a bound session and its dispatcher; the server answers         *)
(* submissions, possibly with the same message id twice, and sends         *)
(* deliver_sm PDUs for ids it returned, for ids it never returned, and     *)
(* repeatedly for the same id.                                             *)
(***************************************************************************)
DlrPdus ==
    {DlrTlv("a", "Delivered"), DlrBoth("a", "Undeliverable", "UNDELIV"),
     DlrText("b", "DELIVRD")}

InitDlr == AtLoop(100, 2)

NextDlr ==
    \/ ThrottledEntry(0)
    \/ SelectOutcome(0)
    \/ SelectTick(0, MaxTicks)
    \/ ServerRespond(0, {"a"}, MaxCompleted)
    \/ ServerDeliverUpTo(0, DlrPdus, MaxDlrEvents)
    \/ DispatchNext(0)
    \/ DispatchDeliver(0)

SpecDlr == InitDlr /\ [][NextDlr]_vars

(***************************************************************************)
(* SpecRecord: drive_throttled_loop with record_success and record_error   *)
(* taken one fetch_add at a time, a snapshot being possible between any    *)
(* two; some submissions are answered late.                                *)
(***************************************************************************)
InitRecord == AtLoop(250, 2)

NextRecord ==
    \/ ThrottledEntry(0)
    \/ SelectTick(0, MaxTicks)
    \/ SelectOutcomeEnter(0)
    \/ RecordStep(0)
    \/ ServerRespond(0, {"a"}, MaxCompleted)
    \/ ServerRespondLate(0, MaxCompleted)
    \/ ClientError(0, MaxCompleted)

SpecRecord == InitRecord /\ [][NextRecord]_vars

(***************************************************************************)
(* SpecParser: the dispatcher of a bound session is sent one deliver_sm    *)
(* without TLVs whose short_message is any sequence of up to MaxTokens     *)
(* tokens of ParserTokens, and parses it.                                  *)
(***************************************************************************)
ParserTokens ==
    {Tok("id:", "a"), Tok("id:", "b"), Tok("id:", ""), Tok("stat:", "DELIVRD"),
     Tok("stat:", "UNDELIV"), Tok("stat:", ""), Tok("", "sub:001")}

ParserTexts == UNION {[1 .. n -> ParserTokens] : n \in 0 .. MaxTokens}

ParserPdus == {DeliverSm(<< >>, Text(t)) : t \in ParserTexts}

InitParser == AtLoop(100, 1)

NextParser ==
    \/ ServerDeliverUpTo(0, ParserPdus, 1)
    \/ DispatchNext(0)
    \/ DispatchDeliver(0)

SpecParser == InitParser /\ [][NextParser]_vars

(***************************************************************************)
(* SpecPeers: the program with two binds, from startup to the join; the    *)
(* server answers submissions and sends no deliver_sm.                     *)
(***************************************************************************)
InitPeers == Startup([binds |-> 2, max_tps_per_bind |-> 100, inflight_per_bind |-> 1])

NextPeers ==
    \/ CtrlC
    \/ Join
    \/ \E i \in Idx : SpawnBind(i)
    \/ \E i \in Idx : Connect(i)
    \/ \E i \in Idx : Bind(i)
    \/ \E i \in Idx : SetBound(i)
    \/ \E i \in Idx : DriveSubmitLoop(i)
    \/ \E i \in Idx : ThrottledEntry(i)
    \/ \E i \in Idx : SelectCancelled(i)
    \/ \E i \in Idx : SelectOutcome(i)
    \/ \E i \in Idx : SelectTick(i, MaxPeerTicks)
    \/ \E i \in Idx : DrainNext(i)
    \/ \E i \in Idx : DrainDone(i)
    \/ \E i \in Idx : Unbind(i)
    \/ \E i \in Idx : Close(i)
    \/ \E i \in Idx : RecordError(i)
    \/ \E i \in Idx : ServerRespond(i, {"a"}, MaxCompleted)

SpecPeers == InitPeers /\ [][NextPeers]_vars

(***************************************************************************)
(* SpecOverflow: drive_throttled_loop at a rate of 30000 with one          *)
(* submission in flight, the server answering when it will, in a build     *)
(* with or without overflow checks.                                        *)
(***************************************************************************)
InitOverflow == AtLoop(30000, 1)

NextOverflow ==
    \/ ThrottledEntry(0)
    \/ SelectOutcome(0)
    \/ SelectTick(0, MaxOverflowTicks)
    \/ SelectTickPanics(0, MaxOverflowTicks)
    \/ ServerRespond(0, {"a"}, MaxCompleted)

SpecOverflow == InitOverflow /\ [][NextOverflow]_vars

(***************************************************************************)
(* The registry alone: a registry of two slots, writers that call it with  *)
(* every index up to its size and one past it, and a reader.               *)
(***************************************************************************)
InitTracker == Startup([binds |-> 2, max_tps_per_bind |-> 100, inflight_per_bind |-> 1])

NextTracker ==
    \/ \E idx \in 0 .. config.binds :
         \E state \in {Pending, Connecting, Bound, Error("bind failed")} :
             TrackerSetState(idx, state)
    \/ \E idx \in 0 .. config.binds :
         \E m \in MsgIds : TrackerSetLastMessageId(idx, SomeMessageId(m))
    \/ TrackerSnapshot

SpecTracker == InitTracker /\ [][NextTracker]_vars

(***************************************************************************)
(* One bind started under every pairing of a zero, a least and a larger    *)
(* configured rate and in-flight limit.                                    *)
(***************************************************************************)
InitConfig ==
    \E tps \in {0, 1, 150}, mi \in {0, 1, 2} :
        Startup([binds |-> 1, max_tps_per_bind |-> tps, inflight_per_bind |-> mi])

SpecConfig == InitConfig /\ [][NextPeers]_vars

(***************************************************************************)
(* Termination: zero or two binds under a fair scheduler.  The runtime     *)
(* polls every ready task, so a session that can take a step takes one; a  *)
(* submit_sm call that is outstanding returns; the supervisor's awaits     *)
(* complete once every task has returned.                                  *)
(***************************************************************************)
InitLive ==
    \E binds \in {0, 2} :
        Startup([binds |-> binds, max_tps_per_bind |-> 100, inflight_per_bind |-> 1])

\* one step of the task of session i
SessionStep(i) ==
    /\ i \in Idx
    /\ \/ SpawnBind(i)
       \/ Connect(i)
       \/ Bind(i)
       \/ SetBound(i)
       \/ DriveSubmitLoop(i)
       \/ ThrottledEntry(i)
       \/ SelectCancelled(i)
       \/ SelectOutcome(i)
       \/ DrainNext(i)
       \/ DrainDone(i)
       \/ Unbind(i)
       \/ Close(i)
       \/ RecordError(i)

\* every session task is polled, every outstanding submit_sm call returns,
\* and the supervisor's awaits complete
Scheduling ==
    /\ WF_vars(SessionStep(0))
    /\ WF_vars(SessionStep(1))
    /\ WF_vars(0 \in Idx /\ ServerRespond(0, {"a"}, MaxCompleted))
    /\ WF_vars(1 \in Idx /\ ServerRespond(1, {"a"}, MaxCompleted))
    /\ WF_vars(Join)

SpecLive == InitLive /\ [][NextPeers]_vars /\ Scheduling

(***************************************************************************)
(* Properties.                                                             *)
(***************************************************************************)
IsPrefix(p, q) == Len(p) <= Len(q) /\ p = SubSeq(q, 1, Len(p))

Lifecycle == << "Pending", "Connecting", "Bound" >>

CeilDiv(a, b) == (a + b - 1) \div b

\* C1: in every state of the submit loops (throttled and unthrottled, the
\* initial fill, the replacement of a completion, the drain) the submissions
\* issued and not yet taken from the in-flight set number at most
\* max_inflight, and max_inflight is at least 1.
C1_InflightBounded ==
    \A i \in Idx : max_inflight[i] >= 1 /\ len(inflight[i]) <= max_inflight[i]

\* the unthrottled loop with two submissions in flight after a replacement
C1_FullWindow ==
    /\ pc[0] = "uselect"
    /\ max_inflight[0] = 2
    /\ len(inflight[0]) = 2
    /\ issued[0] > 2

\* C2: in throttled mode the submissions issued during 100 consecutive ticks
\* (any window of up to 100 ticks, wherever it starts) number at most
\* max_tps + max_inflight.
C2_WindowRate ==
    win.state = "open" => win.issued <= max_tps[0] + max_inflight[0]

\* C3: in throttled mode the grants that 100 consecutive ticks add to
\* allowance (max_tps / 100 per tick plus the carries) sum to max_tps.
C3_GrantsPerSecond ==
    (win.state = "open" /\ win.ticks = ticks_per_sec) => win.grants = max_tps[0]

\* a full window of 100 ticks that started with a remainder carried over
C3_CarriedWindow ==
    /\ win.state = "open"
    /\ win.ticks = ticks_per_sec
    /\ max_tps[0] = 99
    /\ remainder[0] # 0

\* C4: in throttled mode, after any number of ticks, the submissions issued
\* since the loop started number at most ceil(max_tps * ticks / 100) +
\* max_inflight.
C4_CumulativeBound ==
    \A i \in Idx :
        issued[i] <= CeilDiv(max_tps[i] * ticks[i], ticks_per_sec) + max_inflight[i]

\* twenty ticks and more at 150 per second, every grant issued
C4_Paced ==
    /\ max_tps[0] = 150
    /\ ticks[0] >= 20
    /\ issued[0] = granted[0]

\* C5: the states written to a registry slot form a prefix of Pending,
\* Connecting, Bound, optionally followed by one Error, and the slot shows
\* the last state written.
C5_StatePath ==
    \A i \in Idx :
        LET p == statePath[i]
        IN  /\ Len(p) >= 1
            /\ \/ IsPrefix(p, Lifecycle)
               \/ /\ p[Len(p)] = "Error"
                  /\ IsPrefix(SubSeq(p, 1, Len(p) - 1), Lifecycle)
            /\ statuses[i].state.tag = p[Len(p)]

\* a session that failed after Bound
C5_ErrorAfterBound ==
    statePath[0] = << "Pending", "Connecting", "Bound", "Error" >>

\* C6: a session driver that obtained a Client and has returned has called
\* close on it.
C6_CloseOnEveryExit ==
    \A i \in Idx : (pc[i] = "done" /\ client[i] # "none") => calls[i].close >= 1

\* C7: once cancellation is signalled the submit loop issues no submit_sm.
C7_NoIssueAfterCancel ==
    [][shutdown => issued' = issued]_vars

\* C8: when the session driver has returned from the submit loop, the bind's
\* attempts counter equals the number of submit_sm it issued and nothing is
\* left in flight.
C8_AllRecorded ==
    \A i \in Idx :
        (pc[i] = "done" /\ calls[i].close >= 1)
            => /\ metrics.per_bind[i].attempts = issued[i]
               /\ is_empty(inflight[i])

\* a session cancelled and returned after three submissions
C8_Returned ==
    /\ pc[0] = "done"
    /\ calls[0].close = 1
    /\ shutdown
    /\ issued[0] = 3

\* C9: when the dispatcher processes the first deliver_sm naming a message id
\* that a successful submit_sm_resp returned, it finds the correlation entry:
\* dlr_received grows by one and the id is not left in the map.
C9_DlrFindsEntry ==
    [][\A i \in Idx :
          (dpc[i] = "ack" /\ dpc'[i] = "next" /\ cur[i].first)
              => /\ metrics'.per_bind[i].dlr_received
                        = metrics.per_bind[i].dlr_received + 1
                 /\ NamedIds(cur[i].pdu) \cap sent_index'[i] = {}]_vars

\* C10: one successful submit returned "a" and was handled, then the server
\* sent one deliver_sm for "a" with state Delivered (TLVs, or text without
\* TLVs); once the dispatcher has processed it dlr_received = 1,
\* dlr_delivered = 1 and "a" is not in the map.
C10_SingleDlr ==
    \A i \in Idx :
        ( /\ metrics.per_bind[i].success = 1
          /\ respondedIds[i] = {"a"}
          /\ emitted[i] = 1
          /\ events[i] = << >>
          /\ dpc[i] = "next"
          /\ cur[i].known
          /\ cur[i].pdu \in {DlrTlv("a", "Delivered"), DlrText("a", "DELIVRD")} )
            => /\ metrics.per_bind[i].dlr_received = 1
               /\ metrics.per_bind[i].dlr_delivered = 1
               /\ "a" \notin sent_index[i]

\* the sum of the per-state DLR counters of a bind
dlr_state_sum(b) ==
    b.dlr_delivered + b.dlr_failed + b.dlr_unknown + b.dlr_enroute
        + b.dlr_expired + b.dlr_deleted + b.dlr_accepted

\* C11: for each bind, the per-state DLR counters (delivered, failed, unknown,
\* enroute, expired, deleted, accepted) sum to at most the number of
\* deliver_sm PDUs a DLR state was recorded for, by TLV or by text.
C11_StateSumBounded ==
    \A i \in Idx : dlr_state_sum(metrics.per_bind[i]) <= classified[i]

\* C12: one deliver_sm is classified through one path: processing it applies
\* record_dlr_state at most once and record_dlr_status at most once (each
\* call adds one to one per-state counter), whatever its TLVs and its text.
C12_OnePath ==
    [][\A i \in Idx :
          (dpc[i] = "ack" /\ dpc'[i] = "next")
              => dlr_state_sum(metrics'.per_bind[i])
                     <= dlr_state_sum(metrics.per_bind[i]) + 2]_vars

\* C13: for each bind dlr_received <= success: a correlation entry is removed
\* at most once, so DLRs repeated for one id, DLRs naming an id in a TLV and
\* in the text, DLRs for unknown ids and duplicate message ids never take
\* dlr_received above the number of successful submits.
C13_DlrWithinSuccess ==
    \A i \in Idx : metrics.per_bind[i].dlr_received <= metrics.per_bind[i].success

\* two deliver_sm for "a" processed, the first naming it in a TLV and in its
\* text, after two submits that both returned "a"
C13_RepeatedDlr ==
    /\ metrics.per_bind[0].success = 2
    /\ respondedIds[0] = {"a"}
    /\ Len(acks[0]) = 2
    /\ dpc[0] = "next"
    /\ dlrFor[0] = {"a"}
    /\ metrics.per_bind[0].dlr_received = 1
    /\ metrics.per_bind[0].dlr_failed >= 4

\* the record_success / record_error calls in progress on a bind
in_progress(i) == IF rec[i].op = "none" THEN 0 ELSE 1

\* C14: for each bind, success + error = attempts whenever no record_success
\* or record_error call is in progress; at any instant attempts and
\* success + error differ by at most the number of calls in progress.
C14_AttemptsSplit ==
    \A i \in Idx :
        LET b == metrics.per_bind[i]
            d == b.attempts - (b.success + b.error)
        IN  /\ d <= in_progress(i)
            /\ 0 - d <= in_progress(i)
            /\ in_progress(i) = 0 => d = 0

\* a snapshot between the attempts and the success fetch_add of the third
\* record call on the bind
C14_MidCall ==
    /\ rec[0].op = "success"
    /\ rec[0].step = 5
    /\ metrics.per_bind[0].attempts = 3
    /\ metrics.per_bind[0].success + metrics.per_bind[0].error = 2
    /\ metrics.per_bind[0].error = 1

\* C15: every counter of the aggregator (totals and per bind: attempts,
\* success, error, latency sums, dlr_received, DLR latency sum, per-state
\* DLR counters) never decreases from one snapshot to a later one, also when
\* a latency capped to u64::MAX is added.
C15_Monotone ==
    [][/\ metrics'.total_attempts >= metrics.total_attempts
       /\ metrics'.total_success >= metrics.total_success
       /\ metrics'.total_error >= metrics.total_error
       /\ metrics'.total_latency_micros >= metrics.total_latency_micros
       /\ \A i \in Idx : \A f \in DOMAIN BindMetricsDefault :
              metrics'.per_bind[i][f] >= metrics.per_bind[i][f]]_vars

\* C16: every deliver_sm the dispatcher takes from the event stream is
\* answered with a deliver_sm_resp carrying its sequence number, and the
\* reply precedes the parsing and the metric updates for that PDU.
C16_EveryDeliverAcked ==
    [][\A i \in Idx :
          /\ ( /\ dpc[i] = "next"
               /\ events[i] # << >>
               /\ events'[i] = Tail(events[i])
               /\ Head(events[i]).ev = "Incoming"
               /\ Head(events[i]).id = "DeliverSm" )
                 => acks'[i] = Append(acks[i], Head(events[i]).sequence_number)
          /\ (dpc[i] = "ack" /\ dpc'[i] = "next")
                 => /\ acks[i] # << >>
                    /\ acks[i][Len(acks[i])] = cur[i].sequence_number]_vars

\* C17: the correlation map never holds the empty string as a key: a
\* successful submit_sm_resp inserts its message_id only when it is non-empty.
C17_NoEmptyKey ==
    \A i \in Idx : "" \notin sent_index[i]

\* the value of the first token of tokens with this prefix and a non-empty
\* rest
RECURSIVE first_value(_, _)
first_value(tokens, prefix) ==
    IF tokens = << >> THEN None
    ELSE IF Head(tokens).prefix = prefix /\ Head(tokens).rest # ""
    THEN Some(Head(tokens).rest)
    ELSE first_value(Tail(tokens), prefix)

\* the receipt whose id is the first non-empty id: value and whose state is
\* mapped from the first non-empty stat: value
first_wins(tokens) ==
    IF ~first_value(tokens, "id:").some THEN NoDlr
    ELSE [some |-> TRUE, id |-> first_value(tokens, "id:").val,
          ms |-> map_stat_to_message_state(
                     IF first_value(tokens, "stat:").some
                     THEN first_value(tokens, "stat:").val ELSE "")]

\* C18: for every token sequence the textual DLR parser returns the value of
\* the first non-empty id: token and the state mapped from the first
\* non-empty stat: token, whatever tokens follow and in whatever order.
C18_FirstWins ==
    \A i \in Idx :
        (dpc[i] = "next" /\ cur[i].ev = "Incoming")
            => parse_textual_dlr(cur[i].pdu.short_message.tokens)
                   = first_wins(cur[i].pdu.short_message.tokens)

\* C19: a session driver calls connect at most once and bind at most once;
\* after a connect, bind or submit failure it connects and binds no more.
C19_NoRebind ==
    \A i \in Idx : calls[i].connect <= 1 /\ calls[i].bind <= 1

\* a session whose bind failed has returned
C19_BindFailed ==
    /\ pc[0] = "done"
    /\ result[0] = "failed to bind"
    /\ statuses[0].state.tag = "Error"
    /\ calls[0].connect = 1
    /\ calls[0].bind = 1

\* the errors run_bind returns from its connect and bind steps
ConnectOrBindErrors ==
    {"failed to connect to SMPP server", "failed to build bind request",
     "failed to bind"}

\* session i fails to connect or to bind, or records that failure
fails_in_step(i) ==
    \/ pc[i] \in {"connect", "bind"} /\ pc'[i] = "failed"
    \/ pc[i] = "failed" /\ pc'[i] = "done" /\ result[i] \in ConnectOrBindErrors

\* C20: a connect or bind failure of session i sets registry slot i to Error
\* and nothing else: the shared cancellation signal is not triggered, the
\* registry slot and the metrics of every other bind are unchanged, and the
\* other sessions stay in their submit loops until cancellation.
C20_FailureIsLocal ==
    /\ [][\A i \in Idx :
             fails_in_step(i)
                 => /\ shutdown' = shutdown
                    /\ pc'[i] = "done" => statuses'[i].state.tag = "Error"
                    /\ \A j \in Idx \ {i} :
                           /\ statuses'[j] = statuses[j]
                           /\ metrics'.per_bind[j] = metrics.per_bind[j]
                           /\ pc'[j] = pc[j]
                           /\ inflight'[j] = inflight[j]]_vars
    /\ [](\A j \in Idx : pc[j] \in {"drain", "unbind", "close"} => shutdown)

\* session 0 failed to connect; session 1 is in its submit loop with a
\* submission answered and another in flight, and nothing is cancelled
C20_PeerSubmits ==
    /\ pc[0] = "done"
    /\ statuses[0].state.tag = "Error"
    /\ calls[0].bind = 0
    /\ ~shutdown
    /\ pc[1] = "select"
    /\ statuses[1].state.tag = "Bound"
    /\ metrics.per_bind[1].success = 1

\* C21: for each bind, while the registry has not shown Bound for it every
\* metric counter of the bind is zero: the Connecting and Bound writes
\* precede the first record_* call for the bind.
C21_BoundBeforeMetrics ==
    \A i \in Idx :
        metrics.per_bind[i] # BindMetricsDefault
            => \E k \in 1 .. Len(statePath[i]) : statePath[i][k] = "Bound"

\* a bound session with a submission recorded and a DLR counted
C21_Recorded ==
    /\ statePath[0] = << "Pending", "Connecting", "Bound" >>
    /\ metrics.per_bind[0].attempts = 1
    /\ metrics.per_bind[0].dlr_received = 1

\* C22: a step that handles a failed submit_sm adds one to the bind's error
\* counter and one to its attempts counter, leaves its success counter, the
\* registry and the correlation map unchanged, and, unless cancellation has
\* been requested, leaves the session in its submit loop.
C22_ErrorHandled ==
    [][\A i \in Idx :
          CopiesIn(ErrOutcome, inflight'[i].ready) < CopiesIn(ErrOutcome, inflight[i].ready)
              => /\ metrics'.per_bind[i].error = metrics.per_bind[i].error + 1
                 /\ metrics'.per_bind[i].attempts = metrics.per_bind[i].attempts + 1
                 /\ metrics'.per_bind[i].success = metrics.per_bind[i].success
                 /\ statuses' = statuses
                 /\ sent_index' = sent_index
                 /\ (pc[i] = "select" /\ ~shutdown => pc'[i] = "select")]_vars

\* with a window of one, a second submission issued after the first failed
C22_IssuedAfterError ==
    /\ ~shutdown
    /\ max_inflight[0] = 1
    /\ metrics.per_bind[0].error = 1
    /\ metrics.per_bind[0].attempts = 1
    /\ statuses[0].state = Bound
    /\ sent_index[0] = {}
    /\ issued[0] = 2
    /\ inflight[0].pending = 1

\* C23: once cancellation has been requested every session driver returns
\* and the supervisor, having awaited each of them, stops; with no binds it
\* stops with every metric zero.
C23_Terminates ==
    /\ shutdown ~> (supPc = "stopped" /\ \A i \in Idx : pc[i] = "done")
    /\ (shutdown /\ config.binds = 0) ~> (supPc = "stopped" /\ metrics = MetricsNew(0))

\* the supervisor stopped after both sessions drained a submission issued
\* before the cancellation
C23_StoppedAfterDrain ==
    /\ supPc = "stopped"
    /\ config.binds = 2
    /\ \A i \in Idx : pc[i] = "done" /\ calls[i].close = 1 /\ metrics.per_bind[i].attempts = 1

\* C24: a set_state or set_last_message_id call with an index outside the
\* registry leaves the registry unchanged; with an index inside it,
\* set_state changes only the state of that slot and set_last_message_id
\* only its last message id; no write changes a snapshot already taken, and
\* a snapshot is the registry as it was when taken.
C24_RegistryFrame ==
    [][/\ last_write'.n = last_write.n + 1 =>
            LET k == last_write'.idx IN
            /\ snapshot' = snapshot
            /\ DOMAIN statuses' = DOMAIN statuses
            /\ k \notin DOMAIN statuses => statuses' = statuses
            /\ k \in DOMAIN statuses =>
                 /\ \A j \in DOMAIN statuses \ {k} : statuses'[j] = statuses[j]
                 /\ last_write'.op = "set_state" =>
                      /\ statuses'[k].state = last_write'.state
                      /\ statuses'[k].last_message_id = statuses[k].last_message_id
                 /\ last_write'.op = "set_last_message_id" =>
                      /\ statuses'[k].last_message_id = last_write'.message_id
                      /\ statuses'[k].state = statuses[k].state
       /\ snapshot' # snapshot => snapshot' = Some(statuses) /\ statuses' = statuses]_vars

\* a snapshot taken of the new registry, slot 0 then given a message id and
\* the state Bound, and last a set_state with the index one past the end
C24_DroppedWrite ==
    /\ snapshot = Some(BindTrackerNew(2))
    /\ statuses[0] = [state |-> Bound, last_message_id |-> SomeMessageId("a")]
    /\ statuses[1] = BindStatusNew(Pending)
    /\ last_write.op = "set_state"
    /\ last_write.idx = 2
    /\ last_write.n = 3

\* C25: whatever max_tps_per_bind and inflight_per_bind are configured, zero
\* included, no session enters the unthrottled loop, and the max_tps and
\* max_inflight its submit loop runs with are at least 1: the configured
\* value, or 100 and 64 where the configured value is 0.
C25_ConfigNormalised ==
    \A i \in Idx :
        /\ pc[i] \notin {"unthrottled", "uselect"}
        /\ pc[i] \in {"throttled", "select", "drain"} =>
             /\ max_tps[i] >= 1
             /\ max_inflight[i] >= 1
             /\ max_tps[i] = (IF config.max_tps_per_bind = 0 THEN 100
                              ELSE config.max_tps_per_bind)
             /\ max_inflight[i] = (IF config.inflight_per_bind = 0 THEN 64
                                   ELSE config.inflight_per_bind)

\* both values configured as 0: the loop runs at 100 per second with a
\* window of 64 and has issued a submission
C25_ZeroConfigured ==
    /\ config.max_tps_per_bind = 0
    /\ config.inflight_per_bind = 0
    /\ pc[0] = "select"
    /\ max_tps[0] = 100
    /\ max_inflight[0] = 64
    /\ issued[0] = 1

C27_DrainUnbindClose ==
    \A i \in Idx :
        /\ calls[i].unbind <= 1
        /\ calls[i].unbind >= 1 =>
             /\ is_empty(inflight[i])
             /\ metrics.per_bind[i].attempts = issued[i]
        /\ calls[i].close >= 1 => calls[i].unbind >= 1
        /\ (pc[i] = "done" /\ calls[i].unbind >= 1) => calls[i].close = 1

\* a session that drained two submissions, whose unbind failed, and which
\* closed all the same
C27_ClosedAfterFailedUnbind ==
    /\ pc[0] = "done"
    /\ issued[0] = 2
    /\ metrics.per_bind[0].attempts = 2
    /\ calls[0].unbind_failed
    /\ calls[0].close = 1
    /\ statuses[0].state = Bound

C29_AllowanceFits ==
    \A i \in Idx :
        pc[i] = "select"
            => /\ allowance[i] + tick_grant(remainder[i], max_tps[i]) <= U32_MAX
               /\ remainder[i] < ticks_per_sec

====
